---- MODULE Spec2Model ----
(***************************************************************************)
(* Track-change extension for a tiptap / ProseMirror editor.               *)
(*                                                                         *)
(* The document is one text block.  Character i of the block occupies the  *)
(* document positions [i, i+1), so that the block content starts at        *)
(* position 1 and the document content size is Len + 2.  Every character   *)
(* carries at most one insertion mark and at most one deletion mark (a     *)
(* mark type excludes only itself); the two kinds may sit on the same      *)
(* character.  Characters are numbered, so that the identity and the order *)
(* of the text can be compared across edits.                               *)
(*                                                                         *)
(* The repository holds two builds of the interceptor: src/src/index.ts    *)
(* and src/unnamed/part_000.  changeTrack and the commands are the same    *)
(* in both; appendTransaction differs.  The variable `variant` says which  *)
(* build the editor runs.                                                  *)
(***************************************************************************)
EXTENDS Integers, Sequences, FiniteSets, TLC

VARIABLES
  variant,             \* "index" (src/src/index.ts) or "part_000" (src/unnamed/part_000)
  doc,                 \* editor.state.doc: the characters of the text block
  enabled,             \* options.enabled
  dataOpUserId,        \* options.dataOpUserId
  dataOpUserNickname,  \* options.dataOpUserNickname
  composingStatus,     \* module-level IME status
  isStartChineseInput, \* module-level IME start flag
  selfExtFound,        \* the host's extension list holds an extension named EXTENSION_NAME
  clock,               \* the system time in ms and the data-op-date values stamped so far
  nextCh,              \* next fresh character number
  nEdits,              \* number of user changes dispatched so far
  nResolves,           \* number of commands run so far
  base,                \* the document at construction
  shadow,              \* text of the same edits applied with no tracking
  pure,                \* only tracked user edits have happened since construction
  pending,             \* transactions applied in this round, not yet shown to the plugin
  last                 \* what the last operation was given and what it produced

vars == <<variant, doc, enabled, dataOpUserId, dataOpUserNickname, composingStatus,
          isStartChineseInput, selfExtFound, clock, nextCh, nEdits, nResolves, base, shadow, pure, pending, last>>

----------------------------------------------------------------------------
(* Bounds *)

MaxInitLen == 2
MaxEdits == 2
MaxResolves == 1
MaxSlice == 1
MaxAppend == 3
MaxLoadedLen == 3
MaxTrs == 2
MaxBatchSteps == 2
MaxBatches == 1
MaxCommands == 2
MaxRepeats == 1
MaxMinutes == 1
MaxStamps == 2
MaxStyledLen == 3

(* Program constants *)

MARK_DELETION == "deletion"
MARK_INSERTION == "insertion"
MARK_OTHER == "bold"
TRACK_COMMAND_ACCEPT == "accept"
TRACK_COMMAND_ACCEPT_ALL == "accept-all"
TRACK_COMMAND_REJECT == "reject"
TRACK_COMMAND_REJECT_ALL == "reject-all"
IME_STATUS_NORMAL == 0
IME_STATUS_START == 1
IME_STATUS_CONTINUE == 2
IME_STATUS_FINISHED == 3

SecondMs == 1000
MinuteMs == 1000 * 60

Variants == {"index", "part_000"}
UNSET == "undefined"
OpUserIds == {"u1", "u2"}
OpUserNicknames == {"Alice"}

----------------------------------------------------------------------------
(* Marks and documents *)

NoMark == [on |-> FALSE, id |-> "", name |-> ""]
MkMark(id, name) == [on |-> TRUE, id |-> id, name |-> name]
(* A character of the text block: its marks of the two tracked kinds, and
   whether it carries a mark of another extension (bold). *)
Plain(c) == [ch |-> c, ins |-> NoMark, del |-> NoMark, bold |-> FALSE]

Min(a, b) == IF a < b THEN a ELSE b
Max(a, b) == IF a > b THEN a ELSE b

RECURSIVE PlainDoc(_, _)
PlainDoc(first, n) == IF n = 0 THEN <<>> ELSE <<Plain(first)>> \o PlainDoc(first + 1, n - 1)

Text(d) == [i \in 1..Len(d) |-> d[i].ch]
MarksOf(c) == <<c.ins, c.del, c.bold>>
NoMarks(d) == \A i \in 1..Len(d) : ~d[i].ins.on /\ ~d[i].del.on
ContentSize(d) == Len(d) + 2
SameMarkType(c, type) == IF type = MARK_INSERTION THEN c.ins ELSE c.del
WithMark(c, type, m) == IF type = MARK_INSERTION THEN [c EXCEPT !.ins = m] ELSE [c EXCEPT !.del = m]

(* doc.slice(from, to).content inside the text block *)
Slice(d, from, to) == SubSeq(d, from, to - 1)

(* Text nodes: maximal runs of characters with equal mark sets. *)
NodeStartsAt(d, i) == i = 1 \/ MarksOf(d[i]) # MarksOf(d[i - 1])
NodeFrom(d, i) == CHOOSE s \in 1..i : NodeStartsAt(d, s) /\ \A k \in (s + 1)..i : ~NodeStartsAt(d, k)
NodeTo(d, i) == CHOOSE e \in (i + 1)..(Len(d) + 1) :
                  (e = Len(d) + 1 \/ NodeStartsAt(d, e)) /\ \A k \in (i + 1)..(e - 1) : ~NodeStartsAt(d, k)

(* $pos.marks() with no stored marks: the node before the position, the
   node after it at the start of the block, nothing in an empty block. *)
MarksAt(d, pos) ==
  IF Len(d) = 0 THEN <<NoMark, NoMark, FALSE>>
  ELSE IF pos > 1 THEN MarksOf(d[pos - 1]) ELSE MarksOf(d[1])

----------------------------------------------------------------------------
(* Transactions: the document they have reached, their steps (each with the
   document it was applied to, tr.docs[i]) and their meta flags. *)

NewTr(d) == [doc |-> d, steps |-> <<>>, trackManualChanged |-> FALSE, history |-> FALSE,
             sync |-> FALSE, threw |-> FALSE]

ReplaceStep(d, from, to, slice) ==
  [type |-> "replace", from |-> from, to |-> to, slice |-> slice, before |-> d]
MarkStep(d, kind, from, to) ==
  [type |-> kind, from |-> from, to |-> to, slice |-> <<>>, before |-> d]

docChanged(tr) == Len(tr.steps) > 0
InDoc(d, pos) == pos >= 0 /\ pos <= ContentSize(d)
InBlock(d, pos) == pos >= 1 /\ pos <= Len(d) + 1

ApplyReplace(d, from, to, slice) == SubSeq(d, 1, from - 1) \o slice \o SubSeq(d, to, Len(d))

(* tr.replace(from, to, slice): resolving a position outside the document
   throws; a replace that changes nothing adds no step. *)
TrReplace(tr, from, to, slice) ==
  IF tr.threw THEN tr
  ELSE IF ~(InBlock(tr.doc, from) /\ InBlock(tr.doc, to) /\ from <= to)
       THEN [tr EXCEPT !.threw = TRUE]
  ELSE IF from = to /\ Len(slice) = 0 THEN tr
  ELSE [tr EXCEPT !.doc = ApplyReplace(tr.doc, from, to, slice),
                  !.steps = Append(@, ReplaceStep(tr.doc, from, to, slice))]

TrInsert(tr, pos, content) == TrReplace(tr, pos, pos, content)
TrDeleteRange(tr, from, to) == TrReplace(tr, from, to, <<>>)

(* tr.addMark / tr.removeMark walk the nodes between from and to, clamped to
   the document, and add steps only where a node changes. *)
InRange(i, from, to) == i >= from /\ i < to

TrAddMark(tr, from, to, type, m) ==
  IF tr.threw THEN tr
  ELSE LET d == tr.doc
           hit == {i \in 1..Len(d) : InRange(i, from, to) /\ SameMarkType(d[i], type) # m}
           nd == [i \in 1..Len(d) |-> IF i \in hit THEN WithMark(d[i], type, m) ELSE d[i]]
       IN IF hit = {} THEN tr
          ELSE [tr EXCEPT !.doc = nd, !.steps = Append(@, MarkStep(d, "addMark", from, to))]

TrRemoveMark(tr, from, to, type) ==
  IF tr.threw THEN tr
  ELSE LET d == tr.doc
           hit == {i \in 1..Len(d) : InRange(i, from, to) /\ SameMarkType(d[i], type).on}
           nd == [i \in 1..Len(d) |-> IF i \in hit THEN WithMark(d[i], type, NoMark) ELSE d[i]]
       IN IF hit = {} THEN tr
          ELSE [tr EXCEPT !.doc = nd, !.steps = Append(@, MarkStep(d, "removeMark", from, to))]

----------------------------------------------------------------------------
(* The marks the interceptor stamps.  index.ts passes the option as it is
   and an undefined attribute takes the mark's default ''; part_000 falls
   back to 'user' / 'User' when the option is undefined or empty. *)

AttrOrDefault(v) == IF v = UNSET THEN "" ELSE v
OrElse(v, dflt) == IF v = UNSET \/ v = "" THEN dflt ELSE v

insertionMark_index == MkMark(AttrOrDefault(dataOpUserId), AttrOrDefault(dataOpUserNickname))
deletionMark_index == MkMark(AttrOrDefault(dataOpUserId), AttrOrDefault(dataOpUserNickname))
insertionMark_part == MkMark(OrElse(dataOpUserId, "user"), OrElse(dataOpUserNickname, "User"))
deletionMark_part == MkMark(OrElse(dataOpUserId, "user"), OrElse(dataOpUserNickname, "User"))

CurrentInsertionMark == IF variant = "index" THEN insertionMark_index ELSE insertionMark_part
CurrentDeletionMark == IF variant = "index" THEN deletionMark_index ELSE deletionMark_part

(* getSelfExt, line 127: the extension found by name in the host's list, or
   undefined; reading .options of undefined throws a TypeError. *)
getSelfExt == IF selfExtFound THEN "extension" ELSE UNSET

NoResult == [some |-> FALSE, tr |-> NewTr(<<>>), handled |-> <<>>]
Thrown == [some |-> TRUE, tr |-> [NewTr(<<>>) EXCEPT !.threw = TRUE], handled |-> <<>>]
Result(tr, handled) == [some |-> TRUE, tr |-> tr, handled |-> handled]

(* What the step loops carry: the transaction under construction, the
   modified flag, and the steps for which addMark or insert was called. *)
StartAcc(newDoc) == [tr |-> NewTr(newDoc), modified |-> FALSE, handled |-> <<>>]
Handle(acc, tr, step) == [tr |-> tr, modified |-> TRUE, handled |-> Append(acc.handled, step)]
Touch(acc, tr) == [tr |-> tr, modified |-> TRUE, handled |-> acc.handled]
(* Mutant: the flag is not set. *)
Mut_setMetaManual_Forgotten(tr) == tr

setMetaManual(tr) == [tr EXCEPT !.trackManualChanged = TRUE]

(* The end of appendTransaction: the corrective transaction is flagged and
   returned if anything was modified, nothing is returned otherwise. *)
returnIfModified(acc) ==
  IF acc.modified THEN Result(setMetaManual(acc.tr), acc.handled) ELSE NoResult

----------------------------------------------------------------------------
(* appendTransaction of src/src/index.ts *)

isRelevant_index(tr) ==
  /\ docChanged(tr)
  /\ ~tr.trackManualChanged
  /\ ~tr.history
  /\ ~tr.sync
  /\ Len(tr.steps) > 0

(* Mutant: the inserted range is marked whether tracking is enabled or not. *)
Mut_markInserted_index_AlwaysTracked(acc, step) ==
  IF Len(step.slice) > 0
  THEN Handle(acc, TrRemoveMark(TrAddMark(acc.tr, step.from, step.from + Len(step.slice),
                                          MARK_INSERTION, insertionMark_index),
                                step.from, step.from + Len(step.slice), MARK_DELETION), step)
  ELSE acc

(* lines 332-351: an inserting step *)
markInserted_index(acc, step) ==
  IF Len(step.slice) > 0
  THEN LET from == step.from
           to == step.from + Len(step.slice)
           t1 == IF enabled
                 THEN TrAddMark(acc.tr, from, to, MARK_INSERTION, insertionMark_index)
                 ELSE TrRemoveMark(acc.tr, from, to, MARK_INSERTION)
           t2 == TrRemoveMark(t1, from, to, MARK_DELETION)
       IN IF enabled THEN Handle(acc, t2, step) ELSE Touch(acc, t2)
  ELSE acc

(* Mutant: the deleted range is marked without the content being put back. *)
Mut_markDeleted_index_NoReinsert(acc, step) ==
  IF step.from # step.to /\ enabled
  THEN Handle(acc, TrAddMark(acc.tr, step.from, step.to, MARK_DELETION, deletionMark_index),
              step)
  ELSE acc

(* lines 354-368: a deleting step; step.invert(docs[index]) has from =
   step.from and the slice docs[index].slice(step.from, step.to) *)
markDeleted_index(acc, step) ==
  IF step.from # step.to /\ enabled
  THEN LET content == Slice(step.before, step.from, step.to)
       IN IF Len(content) > 0
          THEN Handle(acc, TrAddMark(TrInsert(acc.tr, step.from, content), step.from,
                                     step.from + Len(content), MARK_DELETION,
                                     deletionMark_index), step)
          ELSE acc
  ELSE acc

onStep_index(acc, step) ==
  IF step.type = "replace" THEN markDeleted_index(markInserted_index(acc, step), step) ELSE acc

RECURSIVE forEachStep_index(_, _, _)
forEachStep_index(acc, steps, k) ==
  IF k > Len(steps) THEN acc ELSE forEachStep_index(onStep_index(acc, steps[k]), steps, k + 1)

RECURSIVE forEachTransaction_index(_, _, _)
forEachTransaction_index(acc, trs, k) ==
  IF k > Len(trs) THEN acc
  ELSE forEachTransaction_index(
         IF isRelevant_index(trs[k]) THEN forEachStep_index(acc, trs[k].steps, 1) ELSE acc,
         trs, k + 1)

appendTransaction_index(transactions, newDoc) ==
  IF getSelfExt = UNSET THEN Thrown
  ELSE IF \A k \in 1..Len(transactions) : ~isRelevant_index(transactions[k]) THEN NoResult
  ELSE returnIfModified(forEachTransaction_index(StartAcc(newDoc), transactions, 1))

----------------------------------------------------------------------------
(* appendTransaction of src/unnamed/part_000 *)

hasRelevantChanges_part(transactions) ==
  \E k \in 1..Len(transactions) :
    /\ docChanged(transactions[k])
    /\ ~transactions[k].trackManualChanged
    /\ ~transactions[k].history
    /\ ~transactions[k].sync

(* stepMap.map(step.from, -1): a position at the start of the replaced range
   stays where it is *)
stepMapMapFrom(step) == step.from

(* Mutant: the range of the step is marked, not the range of the new content. *)
Mut_markInserted_part_StepRange(acc, step) ==
  IF Len(step.slice) > 0
  THEN IF enabled
       THEN Handle(acc, TrAddMark(acc.tr, step.from, step.to, MARK_INSERTION,
                                  insertionMark_part), step)
       ELSE Touch(acc, acc.tr)
  ELSE acc

(* lines 366-375 *)
markInserted_part(acc, step) ==
  IF Len(step.slice) > 0
  THEN LET from == stepMapMapFrom(step)
           to == from + Len(step.slice)
       IN IF enabled
          THEN Handle(acc, TrAddMark(acc.tr, from, to, MARK_INSERTION, insertionMark_part),
                      step)
          ELSE Touch(acc, acc.tr)
  ELSE acc

hasInsertionMark(slice) == \E i \in 1..Len(slice) : slice[i].ins.on

(* lines 378-398 *)
markDeleted_part(acc, step) ==
  IF step.from # step.to /\ enabled
  THEN LET deletedSlice == Slice(step.before, step.from, step.to)
           insertPos == stepMapMapFrom(step)
       IN IF ~hasInsertionMark(deletedSlice) /\ Len(deletedSlice) > 0
          THEN Handle(acc, TrAddMark(TrInsert(acc.tr, insertPos, deletedSlice), insertPos,
                                     insertPos + Len(deletedSlice), MARK_DELETION,
                                     deletionMark_part), step)
          ELSE acc
  ELSE acc

onStep_part(acc, step) ==
  IF step.type = "replace" THEN markDeleted_part(markInserted_part(acc, step), step) ELSE acc

RECURSIVE forEachStep_part(_, _, _)
forEachStep_part(acc, steps, k) ==
  IF k > Len(steps) THEN acc ELSE forEachStep_part(onStep_part(acc, steps[k]), steps, k + 1)

skipTransaction_part(tr) == tr.trackManualChanged \/ tr.history

RECURSIVE forEachTransaction_part(_, _, _)
forEachTransaction_part(acc, trs, k) ==
  IF k > Len(trs) THEN acc
  ELSE forEachTransaction_part(
         IF skipTransaction_part(trs[k]) THEN acc ELSE forEachStep_part(acc, trs[k].steps, 1),
         trs, k + 1)

appendTransaction_part(transactions, newDoc) ==
  IF ~hasRelevantChanges_part(transactions) THEN NoResult
  ELSE returnIfModified(forEachTransaction_part(StartAcc(newDoc), transactions, 1))

appendTransaction(transactions, newDoc) ==
  IF variant = "index" THEN appendTransaction_index(transactions, newDoc)
  ELSE appendTransaction_part(transactions, newDoc)

----------------------------------------------------------------------------
(* Queries of @tiptap/core used by changeTrack *)

MarkRange(from, to, type, m) == [from |-> from, to |-> to, type |-> type, mark |-> m]

NodeRanges(d, i) ==
  LET f == i
      t == NodeTo(d, i)
  IN (IF d[i].ins.on THEN <<MarkRange(f, t, MARK_INSERTION, d[i].ins)>> ELSE <<>>)
     \o (IF d[i].del.on THEN <<MarkRange(f, t, MARK_DELETION, d[i].del)>> ELSE <<>>)
     \o (IF d[i].bold THEN <<MarkRange(f, t, MARK_OTHER, NoMark)>> ELSE <<>>)

(* getMarksBetween(from, to, doc), from # to: one range per mark of every
   text node that overlaps [from, to), in document order; the range is the
   whole node, not clipped to [from, to). *)
RECURSIVE marksBetweenFrom(_, _, _, _)
marksBetweenFrom(d, i, from, to) ==
  IF i > Len(d) THEN <<>>
  ELSE (IF NodeStartsAt(d, i) /\ NodeTo(d, i) > from /\ i < to THEN NodeRanges(d, i) ELSE <<>>)
       \o marksBetweenFrom(d, i + 1, from, to)

getMarksBetween(from, to, d) == marksBetweenFrom(d, 1, from, to)

(* isMarkActive(state, type) with an empty selection and no stored marks *)
isMarkActive(d, pos, type) ==
  IF type = MARK_INSERTION THEN MarksAt(d, pos)[1].on ELSE MarksAt(d, pos)[2].on

HasType(c, type) == SameMarkType(c, type).on
FirstMark(c) == IF c.ins.on THEN c.ins ELSE c.del
AttrsOf(m) == <<m.id, m.name>>
isMarkInSet(c, type, attrs) == HasType(c, type) /\ AttrsOf(SameMarkType(c, type)) = attrs

(* getMarkRange($pos, type): the node after the position, or the node before
   it when that one lacks the mark; the attributes compared are those of the
   node's first mark; the range extends over the neighbours that carry the
   mark with these attributes. *)
NoRange == [some |-> FALSE, from |-> 0, to |-> 0]
getMarkRange(d, pos, type) ==
  LET afterOk == pos <= Len(d) /\ HasType(d[pos], type)
      beforeOk == pos > 1 /\ pos - 1 <= Len(d) /\ HasType(d[pos - 1], type)
  IN IF ~afterOk /\ ~beforeOk THEN NoRange
     ELSE LET at == IF afterOk THEN pos ELSE pos - 1
              attrs == AttrsOf(FirstMark(d[NodeFrom(d, at)]))
          IN IF ~isMarkInSet(d[at], type, attrs) THEN NoRange
             ELSE LET lo == CHOOSE s \in 1..at :
                              /\ \A k \in s..at : isMarkInSet(d[k], type, attrs)
                              /\ (s = 1 \/ ~isMarkInSet(d[s - 1], type, attrs))
                      hi == CHOOSE e \in at..Len(d) :
                              /\ \A k \in at..e : isMarkInSet(d[k], type, attrs)
                              /\ (e = Len(d) \/ ~isMarkInSet(d[e + 1], type, attrs))
                  IN [some |-> TRUE, from |-> lo, to |-> hi + 1]

----------------------------------------------------------------------------
(* changeTrack, lines 138-213 (the same in both builds) *)

(* lines 153-163: the run the cursor sits after, if there is one *)
leftRange(d, from) ==
  LET isInsertBeforeCursor == isMarkActive(d, from, MARK_INSERTION)
      isDeleteBeforeCursor == isMarkActive(d, from, MARK_DELETION)
  IN IF isInsertBeforeCursor THEN getMarkRange(d, from, MARK_INSERTION)
     ELSE IF isDeleteBeforeCursor THEN getMarkRange(d, from, MARK_DELETION)
     ELSE NoRange

marksOfRange(range, d) ==
  IF range.some THEN getMarksBetween(range.from, range.to, d) ELSE <<>>

(* Mutant: the -all commands look at the selection like the others. *)
Mut_gatherMarkRanges_AllUsesSelection(opType, from, to, d) ==
  IF from = to THEN marksOfRange(leftRange(d, from), d) ELSE getMarksBetween(from, to, d)

gatherMarkRanges(opType, from, to, d) ==
  IF (opType = TRACK_COMMAND_ACCEPT \/ opType = TRACK_COMMAND_REJECT) /\ from = to
  THEN marksOfRange(leftRange(d, from), d)
  ELSE IF opType = TRACK_COMMAND_ACCEPT_ALL \/ opType = TRACK_COMMAND_REJECT_ALL
  THEN getMarksBetween(0, ContentSize(d), d)
  ELSE getMarksBetween(from, to, d)

(* line 176: just the track change nodes *)
isTrackChangeRange(markRange) ==
  markRange.type = MARK_DELETION \/ markRange.type = MARK_INSERTION
filterMarkRanges(markRanges) == SelectSeq(markRanges, isTrackChangeRange)

normalOpType(opType) ==
  IF opType = TRACK_COMMAND_ACCEPT_ALL THEN TRACK_COMMAND_ACCEPT
  ELSE IF opType = TRACK_COMMAND_REJECT_ALL THEN TRACK_COMMAND_REJECT
  ELSE opType

isRemoveMark(opType, markRange) ==
  \/ opType = TRACK_COMMAND_ACCEPT /\ markRange.type = MARK_INSERTION
  \/ opType = TRACK_COMMAND_REJECT /\ markRange.type = MARK_DELETION

(* Mutant: content is deleted but the running offset is not advanced. *)
Mut_resolveRange_NoOffset(acc, opType, markRange) ==
  IF isRemoveMark(opType, markRange)
  THEN [tr |-> TrRemoveMark(TrRemoveMark(acc.tr, markRange.from - acc.offset,
                                         markRange.to - acc.offset, MARK_INSERTION),
                            markRange.from - acc.offset, markRange.to - acc.offset,
                            MARK_DELETION),
        offset |-> acc.offset,
        calls |-> Append(acc.calls, [fn |-> "removeMark", from |-> markRange.from - acc.offset,
                                     to |-> markRange.to - acc.offset,
                                     size |-> ContentSize(acc.tr.doc), offset |-> acc.offset])]
  ELSE [tr |-> TrDeleteRange(acc.tr, markRange.from - acc.offset, markRange.to - acc.offset),
        offset |-> acc.offset,
        calls |-> Append(acc.calls, [fn |-> "deleteRange", from |-> markRange.from - acc.offset,
                                     to |-> markRange.to - acc.offset,
                                     size |-> ContentSize(acc.tr.doc), offset |-> acc.offset])]

(* lines 194-207: one run *)
resolveRange(acc, opType, markRange) ==
  IF isRemoveMark(opType, markRange)
  THEN [tr |-> TrRemoveMark(TrRemoveMark(acc.tr, markRange.from - acc.offset,
                                         markRange.to - acc.offset, MARK_INSERTION),
                            markRange.from - acc.offset, markRange.to - acc.offset,
                            MARK_DELETION),
        offset |-> acc.offset,
        calls |-> Append(acc.calls, [fn |-> "removeMark", from |-> markRange.from - acc.offset,
                                     to |-> markRange.to - acc.offset,
                                     size |-> ContentSize(acc.tr.doc), offset |-> acc.offset])]
  ELSE [tr |-> TrDeleteRange(acc.tr, markRange.from - acc.offset, markRange.to - acc.offset),
        offset |-> acc.offset + (markRange.to - markRange.from),
        calls |-> Append(acc.calls, [fn |-> "deleteRange", from |-> markRange.from - acc.offset,
                                     to |-> markRange.to - acc.offset,
                                     size |-> ContentSize(acc.tr.doc), offset |-> acc.offset])]

RECURSIVE forEachMarkRange(_, _, _, _)
forEachMarkRange(acc, opType, markRanges, k) ==
  IF k > Len(markRanges) THEN acc
  ELSE forEachMarkRange(resolveRange(acc, opType, markRanges[k]), opType, markRanges, k + 1)

(* lines 208-212: the transaction is flagged if it has steps *)
returnResolved(acc, markRanges) ==
  [ret |-> TRUE,
   tr |-> IF Len(acc.tr.steps) > 0 THEN setMetaManual(acc.tr) ELSE acc.tr,
   markRanges |-> markRanges, calls |-> acc.calls]

(* lines 175-212: what changeTrack does with the runs it has gathered *)
resolveMarkRanges(opType, markRanges, d) ==
  IF Len(markRanges) = 0
  THEN [ret |-> FALSE, tr |-> NewTr(d), markRanges |-> markRanges, calls |-> <<>>]
  ELSE returnResolved(forEachMarkRange([tr |-> NewTr(d), offset |-> 0, calls |-> <<>>],
                                       normalOpType(opType), markRanges, 1),
                      markRanges)

changeTrack(opType, from, to, d) ==
  resolveMarkRanges(opType, filterMarkRanges(gatherMarkRanges(opType, from, to, d)), d)

----------------------------------------------------------------------------
(* The host applies a transaction and then shows the plugin every
   transaction it has not seen, applying what the plugin returns, until the
   plugin returns nothing.  The model shows the plugin its own corrective
   transaction too, so that nothing but the meta flag ends the loop.  An
   exception thrown by the plugin leaves the editor state as it was. *)

RECURSIVE appendLoop(_, _, _, _, _)
RECURSIVE applyAppended(_, _, _, _, _)

(* One round: r is what the plugin returned for the unseen transactions;
   `handled` keeps the steps the plugin acted on in the first round. *)
applyAppended(r, d, oldDoc, appended, handled) ==
  IF ~r.some
  THEN [doc |-> d, appended |-> appended, threw |-> FALSE,
        handled |-> IF Len(appended) = 0 THEN r.handled ELSE handled]
  ELSE IF r.tr.threw
  THEN [doc |-> oldDoc, appended |-> appended, threw |-> TRUE,
        handled |-> IF Len(appended) = 0 THEN r.handled ELSE handled]
  ELSE appendLoop(<<r.tr>>, r.tr.doc, oldDoc, Append(appended, r.tr),
                  IF Len(appended) = 0 THEN r.handled ELSE handled)

appendLoop(unseen, d, oldDoc, appended, handled) ==
  IF Len(appended) >= MaxAppend
  THEN [doc |-> d, appended |-> appended, threw |-> FALSE, handled |-> handled]
  ELSE applyAppended(appendTransaction(unseen, d), d, oldDoc, appended, handled)

dispatch(transactions, newDoc, oldDoc) == appendLoop(transactions, newDoc, oldDoc, <<>>, <<>>)

----------------------------------------------------------------------------
(* The text the same edits give with no tracking at all: the characters of
   the tracked document that exist in the untracked one are those of
   `shadow`; an edit of [from, to) removes those of them that lie in the
   range and puts the new characters where the range began. *)

InShadow(sh, c) == \E k \in 1..Len(sh) : sh[k] = c.ch
ShadowPos(sh, d, from) == Cardinality({i \in 1..(from - 1) : InShadow(sh, d[i])})
ShadowEdit(sh, d, from, to, slice) ==
  LET p == ShadowPos(sh, d, from)
      q == ShadowPos(sh, d, to)
  IN SubSeq(sh, 1, p) \o Text(slice) \o SubSeq(sh, q + 1, Len(sh))

----------------------------------------------------------------------------
(* State machine *)

NoClock == [now |-> 0, stamps |-> <<>>]

NoLast == [op |-> "init", pre |-> <<>>, from |-> 0, to |-> 0, slice |-> <<>>,
           root |-> NewTr(<<>>), appended |-> <<>>, threw |-> FALSE, ret |-> FALSE,
           markRanges |-> <<>>, calls |-> <<>>, enabledAt |-> FALSE, pureBefore |-> FALSE,
           opUserId |-> UNSET, opUserNickname |-> UNSET, composingAt |-> 0, batch |-> <<>>,
           handled |-> <<>>, cmdRet |-> FALSE, status |-> FALSE, argId |-> UNSET,
           argName |-> UNSET, statusCalls |-> <<>>, again |-> FALSE]

Init ==
  /\ variant \in Variants
  /\ \E n \in 0..MaxInitLen : /\ doc = PlainDoc(1, n)
                              /\ base = doc
                              /\ shadow = Text(doc)
                              /\ nextCh = n + 1
  /\ enabled \in BOOLEAN
  /\ dataOpUserId = "u1"
  /\ dataOpUserNickname = "Alice"
  /\ composingStatus = IME_STATUS_NORMAL
  /\ isStartChineseInput = FALSE
  /\ selfExtFound = TRUE
  /\ clock = NoClock
  /\ nEdits = 0
  /\ nResolves = 0
  /\ pure = TRUE
  /\ pending = <<>>
  /\ last = NoLast

(* What a user transaction inserts: fresh characters, which carry either no
   mark (pasted plain text) or the marks typing inherits at the position. *)
TypedMarks(d, from, to) ==
  IF from = to THEN MarksAt(d, from) ELSE MarksOf(d[from])

NewSlice(d, from, to, n, inherit) ==
  [k \in 1..n |-> IF inherit
                  THEN [ch |-> nextCh + k - 1, ins |-> TypedMarks(d, from, to)[1],
                        del |-> TypedMarks(d, from, to)[2],
                        bold |-> TypedMarks(d, from, to)[3]]
                  ELSE Plain(nextCh + k - 1)]

(* A user change of one step, dispatched to the editor. *)
UserEdit ==
  \E from \in 1..(Len(doc) + 1), to \in 1..(Len(doc) + 1), n \in 0..MaxSlice, inherit \in BOOLEAN :
    /\ nEdits < MaxEdits
    /\ from <= to
    /\ from < to \/ n > 0
    /\ n = 0 => ~inherit
    /\ \E slice \in {NewSlice(doc, from, to, n, inherit)} :
       \E root \in {TrReplace(NewTr(doc), from, to, slice)} :
       \E res \in {dispatch(<<root>>, root.doc, doc)} :
          /\ doc' = res.doc
          /\ shadow' = IF res.threw THEN shadow ELSE ShadowEdit(shadow, doc, from, to, slice)
          /\ pure' = (pure /\ enabled)
          /\ last' = [NoLast EXCEPT !.op = "edit", !.pre = doc, !.from = from, !.to = to,
                                    !.slice = slice, !.root = root, !.appended = res.appended,
                                    !.threw = res.threw, !.handled = res.handled,
                                    !.batch = <<root>>, !.enabledAt = enabled,
                                    !.pureBefore = pure,
                                    !.opUserId = dataOpUserId,
                                    !.opUserNickname = dataOpUserNickname,
                                    !.composingAt = composingStatus]
    /\ nextCh' = nextCh + n
    /\ nEdits' = nEdits + 1
    /\ UNCHANGED <<variant, selfExtFound, clock, enabled, dataOpUserId, dataOpUserNickname, composingStatus,
                   isStartChineseInput, nResolves, base, pending>>

(* The four resolution commands: the command runs changeTrack on the
   selection, returns false whatever changeTrack returned, and the command
   manager dispatches its transaction. *)
resolveCommandReturn(r) == FALSE

ResolveStep(opType, from, to, again) ==
  /\ \E r \in {changeTrack(opType, from, to, doc)} :
     \E res \in {dispatch(<<r.tr>>, r.tr.doc, doc)} :
        /\ doc' = IF r.tr.threw THEN doc ELSE res.doc
        /\ shadow' = shadow
        /\ pure' = FALSE
        /\ last' = [NoLast EXCEPT !.op = opType, !.pre = doc, !.from = from, !.to = to,
                                  !.root = r.tr, !.appended = res.appended,
                                  !.threw = (r.tr.threw \/ res.threw), !.ret = r.ret,
                                  !.batch = <<r.tr>>,
                                  !.markRanges = r.markRanges, !.calls = r.calls,
                                  !.enabledAt = enabled, !.pureBefore = pure,
                                  !.composingAt = composingStatus,
                                  !.cmdRet = resolveCommandReturn(r), !.again = again]
  /\ nResolves' = nResolves + 1
  /\ UNCHANGED <<variant, selfExtFound, clock, enabled, dataOpUserId, dataOpUserNickname,
                 composingStatus, isStartChineseInput, nextCh, nEdits, base, pending>>

Resolve(opType, from, to) ==
  /\ nResolves < MaxResolves
  /\ ResolveStep(opType, from, to, FALSE)

Selections(d) == {s \in (1..(Len(d) + 1)) \X (1..(Len(d) + 1)) : s[1] <= s[2]}

acceptChange == \E s \in Selections(doc) : Resolve(TRACK_COMMAND_ACCEPT, s[1], s[2])
rejectChange == \E s \in Selections(doc) : Resolve(TRACK_COMMAND_REJECT, s[1], s[2])
acceptAllChanges == \E s \in Selections(doc) : Resolve(TRACK_COMMAND_ACCEPT_ALL, s[1], s[2])
rejectAllChanges == \E s \in Selections(doc) : Resolve(TRACK_COMMAND_REJECT_ALL, s[1], s[2])

(* The session commands, lines 235-254 and 272-277.  The command looks the
   extension up with getSelfExt and reads its options: if the lookup found
   nothing the command throws and nothing is dispatched.  Otherwise the
   option is written, the onStatusChange callback the host has registered is
   called, the command returns, and the command manager dispatches the
   command's transaction, which has no step. *)
SessionLast(op) ==
  [NoLast EXCEPT !.op = op, !.pre = doc, !.enabledAt = enabled, !.pureBefore = pure,
                 !.opUserId = dataOpUserId, !.opUserNickname = dataOpUserNickname,
                 !.composingAt = composingStatus]

SessionCommand(rec, eff) ==
  /\ nResolves < MaxCommands
  /\ IF getSelfExt = UNSET
     THEN /\ enabled' = enabled
          /\ dataOpUserId' = dataOpUserId
          /\ dataOpUserNickname' = dataOpUserNickname
          /\ doc' = doc
          /\ last' = [rec EXCEPT !.threw = TRUE]
     ELSE \E res \in {dispatch(<<NewTr(doc)>>, doc, doc)} :
          /\ enabled' = eff.enabled
          /\ dataOpUserId' = eff.id
          /\ dataOpUserNickname' = eff.name
          /\ doc' = res.doc
          /\ last' = [rec EXCEPT !.statusCalls = eff.calls, !.cmdRet = eff.ret,
                                 !.appended = res.appended, !.threw = res.threw]
  /\ nResolves' = nResolves + 1
  /\ UNCHANGED <<variant, selfExtFound, clock, composingStatus, isStartChineseInput, nextCh, nEdits,
                 base, shadow, pure, pending>>

setTrackChangeStatus ==
  \E b \in BOOLEAN :
    SessionCommand([SessionLast("setTrackChangeStatus") EXCEPT !.status = b],
                   [enabled |-> b, id |-> dataOpUserId, name |-> dataOpUserNickname,
                    calls |-> <<b>>, ret |-> FALSE])

toggleTrackChangeStatus ==
  SessionCommand(SessionLast("toggleTrackChangeStatus"),
                 [enabled |-> ~enabled, id |-> dataOpUserId, name |-> dataOpUserNickname,
                  calls |-> <<~enabled>>, ret |-> FALSE])

getTrackChangeStatus ==
  SessionCommand(SessionLast("getTrackChangeStatus"),
                 [enabled |-> enabled, id |-> dataOpUserId, name |-> dataOpUserNickname,
                  calls |-> <<>>, ret |-> enabled])

(* The author a host may pass: an id and a nickname, or empty strings. *)
OpUserOptions == {<<"u2", "Bob">>, <<"", "">>}

updateOpUserOption ==
  \E o \in OpUserOptions :
    SessionCommand([SessionLast("updateOpUserOption") EXCEPT !.argId = o[1], !.argName = o[2]],
                   [enabled |-> enabled, id |-> o[1], name |-> o[2], calls |-> <<>>,
                    ret |-> FALSE])

(* An editing session: user changes with the session commands in between. *)
NextSession ==
  \/ UserEdit
  \/ setTrackChangeStatus
  \/ toggleTrackChangeStatus
  \/ getTrackChangeStatus
  \/ updateOpUserOption

SpecSession == Init /\ [][NextSession]_vars

(* The same session in a host where the extension is registered under
   another name (TrackChangeExtension.extend({ name })), so that getSelfExt
   finds nothing. *)
InitRenamed ==
  /\ variant \in Variants
  /\ \E n \in 0..MaxInitLen : /\ doc = PlainDoc(1, n)
                              /\ base = doc
                              /\ shadow = Text(doc)
                              /\ nextCh = n + 1
  /\ enabled \in BOOLEAN
  /\ dataOpUserId = "u1"
  /\ dataOpUserNickname = "Alice"
  /\ composingStatus = IME_STATUS_NORMAL
  /\ isStartChineseInput = FALSE
  /\ selfExtFound = FALSE
  /\ clock = NoClock
  /\ nEdits = 0
  /\ nResolves = 0
  /\ pure = TRUE
  /\ pending = <<>>
  /\ last = NoLast

NextRenamed ==
  \/ UserEdit
  \/ setTrackChangeStatus
  \/ toggleTrackChangeStatus
  \/ getTrackChangeStatus
  \/ updateOpUserOption

SpecRenamed == InitRenamed /\ [][NextRenamed]_vars

(* A document loaded with tracked runs already in it (the marks parse from
   <insert> and <delete> elements), on which only the resolution commands
   run. *)
LoadedMarks == {NoMark} \cup {MkMark(id, name) : id \in OpUserIds, name \in OpUserNicknames}
LoadedDocs ==
  UNION {{[i \in 1..n |-> [ch |-> i, ins |-> f[i][1], del |-> f[i][2], bold |-> FALSE]] :
            f \in [1..n -> LoadedMarks \X LoadedMarks]} : n \in 0..MaxLoadedLen}

InitLoaded ==
  /\ variant \in Variants
  /\ doc \in LoadedDocs
  /\ base = doc
  /\ shadow = <<>>
  /\ nextCh = Len(doc) + 1
  /\ enabled = TRUE
  /\ dataOpUserId = "u1"
  /\ dataOpUserNickname = "Alice"
  /\ composingStatus = IME_STATUS_NORMAL
  /\ isStartChineseInput = FALSE
  /\ selfExtFound = TRUE
  /\ clock = NoClock
  /\ nEdits = 0
  /\ nResolves = 0
  /\ pure = FALSE
  /\ pending = <<>>
  /\ last = NoLast

NextLoaded ==
  \/ acceptChange
  \/ rejectChange
  \/ acceptAllChanges
  \/ rejectAllChanges

SpecLoaded == InitLoaded /\ [][NextLoaded]_vars

(* A loaded document whose text also carries marks of another extension:
   any character may be bold, inside a tracked run or outside. *)
StyledMarks == {NoMark, MkMark("u1", "Alice")}
StyledDocs ==
  UNION {{[i \in 1..n |-> [ch |-> i, ins |-> f[i][1], del |-> f[i][2], bold |-> f[i][3]]] :
            f \in [1..n -> StyledMarks \X StyledMarks \X BOOLEAN]} : n \in 0..MaxStyledLen}

InitStyled ==
  /\ variant \in Variants
  /\ doc \in StyledDocs
  /\ base = doc
  /\ shadow = <<>>
  /\ nextCh = Len(doc) + 1
  /\ enabled = TRUE
  /\ dataOpUserId = "u1"
  /\ dataOpUserNickname = "Alice"
  /\ composingStatus = IME_STATUS_NORMAL
  /\ isStartChineseInput = FALSE
  /\ selfExtFound = TRUE
  /\ clock = NoClock
  /\ nEdits = 0
  /\ nResolves = 0
  /\ pure = FALSE
  /\ pending = <<>>
  /\ last = NoLast

SpecStyled == InitStyled /\ [][NextLoaded]_vars

(* The same command run a second time at once.  The selection the second
   run sees is the one the editor keeps after the first: the old selection
   mapped through the steps of the first run's transaction
   (Selection.map(tr.doc, tr.mapping)); a position inside a deleted range
   moves to where the range began. *)
mapStep(step, pos) ==
  IF step.type # "replace" \/ pos < step.from THEN pos
  ELSE IF pos > step.to THEN pos - (step.to - step.from) + Len(step.slice)
  ELSE step.from + Len(step.slice)

RECURSIVE mapThrough(_, _, _)
mapThrough(steps, k, pos) ==
  IF k > Len(steps) THEN pos ELSE mapThrough(steps, k + 1, mapStep(steps[k], pos))

selectionAfter(tr, pos) == IF tr.threw THEN pos ELSE mapThrough(tr.steps, 1, pos)

resolveAgain ==
  /\ last.op \in {TRACK_COMMAND_ACCEPT, TRACK_COMMAND_REJECT, TRACK_COMMAND_ACCEPT_ALL,
                  TRACK_COMMAND_REJECT_ALL}
  /\ nResolves >= MaxResolves
  /\ nResolves < MaxResolves + MaxRepeats
  /\ ResolveStep(last.op, selectionAfter(last.root, last.from),
                 selectionAfter(last.root, last.to), TRUE)

NextTwice ==
  \/ acceptChange
  \/ rejectChange
  \/ acceptAllChanges
  \/ rejectAllChanges
  \/ resolveAgain

SpecTwice == InitLoaded /\ [][NextTwice]_vars

(* A round of the host in which the plugin is shown several transactions:
   the root transaction and those other plugins appended to it.  Each is a
   user change, a history replay (history$) or a remote change (y-sync$ with
   isChangeOrigin). *)
Origins == {"user", "history", "sync"}
TrOfOrigin(d, origin) ==
  [NewTr(d) EXCEPT !.history = (origin = "history"), !.sync = (origin = "sync")]

WorkingDoc == IF Len(pending) = 0 THEN doc ELSE pending[Len(pending)].doc

RECURSIVE CountSteps(_, _)
CountSteps(trs, k) == IF k > Len(trs) THEN 0 ELSE Len(trs[k].steps) + CountSteps(trs, k + 1)

BeginTransaction ==
  \E origin \in Origins :
    /\ nEdits < MaxBatches
    /\ Len(pending) < MaxTrs
    /\ Len(pending) > 0 => docChanged(pending[Len(pending)])
    /\ CountSteps(pending, 1) < MaxBatchSteps
    /\ pending' = Append(pending, TrOfOrigin(WorkingDoc, origin))
    /\ UNCHANGED <<variant, selfExtFound, clock, doc, enabled, dataOpUserId, dataOpUserNickname, composingStatus,
                   isStartChineseInput, nextCh, nEdits, nResolves, base, shadow, pure, last>>

AddStep ==
  \E from \in 1..(Len(WorkingDoc) + 1), to \in 1..(Len(WorkingDoc) + 1), n \in 0..MaxSlice,
     inherit \in BOOLEAN :
    /\ Len(pending) > 0
    /\ CountSteps(pending, 1) < MaxBatchSteps
    /\ from <= to
    /\ from < to \/ n > 0
    /\ n = 0 => ~inherit
    /\ pending' = [pending EXCEPT ![Len(pending)] =
                     TrReplace(@, from, to, NewSlice(WorkingDoc, from, to, n, inherit))]
    /\ nextCh' = nextCh + n
    /\ UNCHANGED <<variant, selfExtFound, clock, doc, enabled, dataOpUserId, dataOpUserNickname, composingStatus,
                   isStartChineseInput, nEdits, nResolves, base, shadow, pure, last>>

AppendBatch ==
  /\ Len(pending) > 0
  /\ docChanged(pending[Len(pending)])
  /\ \E res \in {dispatch(pending, WorkingDoc, doc)} :
        /\ doc' = res.doc
        /\ last' = [NoLast EXCEPT !.op = "batch", !.pre = doc, !.batch = pending,
                                  !.appended = res.appended, !.threw = res.threw,
                                  !.handled = res.handled, !.enabledAt = enabled,
                                  !.pureBefore = pure, !.opUserId = dataOpUserId,
                                  !.opUserNickname = dataOpUserNickname,
                                  !.composingAt = composingStatus]
  /\ pending' = <<>>
  /\ pure' = FALSE
  /\ nEdits' = nEdits + 1
  /\ UNCHANGED <<variant, selfExtFound, clock, enabled, dataOpUserId, dataOpUserNickname, composingStatus,
                 isStartChineseInput, nextCh, nResolves, base, shadow>>

NextBatch ==
  \/ BeginTransaction
  \/ AddStep
  \/ AppendBatch

SpecBatch == Init /\ [][NextBatch]_vars

(* The IME events and the selection update, with user changes in between. *)
compositionstart ==
  /\ isStartChineseInput' = TRUE
  /\ UNCHANGED <<variant, selfExtFound, clock, doc, enabled, dataOpUserId, dataOpUserNickname, composingStatus,
                 nextCh, nEdits, nResolves, base, shadow, pure, pending, last>>

compositionupdate ==
  /\ composingStatus' = IME_STATUS_CONTINUE
  /\ UNCHANGED <<variant, selfExtFound, clock, doc, enabled, dataOpUserId, dataOpUserNickname,
                 isStartChineseInput, nextCh, nEdits, nResolves, base, shadow, pure, pending,
                 last>>

onSelectionUpdate ==
  /\ composingStatus' = IME_STATUS_NORMAL
  /\ isStartChineseInput' = FALSE
  /\ UNCHANGED <<variant, selfExtFound, clock, doc, enabled, dataOpUserId, dataOpUserNickname, nextCh, nEdits,
                 nResolves, base, shadow, pure, pending, last>>

NextIme ==
  \/ compositionstart
  \/ compositionupdate
  \/ onSelectionUpdate
  \/ UserEdit

SpecIme == Init /\ [][NextIme]_vars

(* getMinuteTime, line 130: Math.round(new Date().getTime() / 1000 / 60) *
   1000 * 60.  Math.round of a non-negative number is the floor of the
   number plus one half, so for a whole number of milliseconds t the result
   is floor((t + 30000) / 60000) * 60000. *)
MathRound(num, den) == (2 * num + den) \div (2 * den)
getMinuteTime(t) == MathRound(t, SecondMs * 60) * 1000 * 60

(* The clock: instants of the first minutes, at chosen seconds of the minute
   and at the first and the last millisecond of the second.  Time passes,
   and a mark is created now and then, its data-op-date attribute being
   getMinuteTime() (lines 333-337 and 357-361). *)
ClockSeconds == {0, 29, 30, 59}
ClockTimes ==
  {m * MinuteMs + sec * SecondMs + ms : m \in 0..MaxMinutes, sec \in ClockSeconds,
                                       ms \in {0, SecondMs - 1}}

InitClock ==
  /\ variant \in Variants
  /\ doc = <<>>
  /\ base = doc
  /\ shadow = <<>>
  /\ nextCh = 1
  /\ enabled = TRUE
  /\ dataOpUserId = "u1"
  /\ dataOpUserNickname = "Alice"
  /\ composingStatus = IME_STATUS_NORMAL
  /\ isStartChineseInput = FALSE
  /\ selfExtFound = TRUE
  /\ clock \in {[NoClock EXCEPT !.now = t] : t \in ClockTimes}
  /\ nEdits = 0
  /\ nResolves = 0
  /\ pure = TRUE
  /\ pending = <<>>
  /\ last = NoLast

timePasses ==
  /\ \E t \in ClockTimes : t > clock.now /\ clock' = [clock EXCEPT !.now = t]
  /\ UNCHANGED <<variant, selfExtFound, doc, enabled, dataOpUserId, dataOpUserNickname,
                 composingStatus, isStartChineseInput, nextCh, nEdits, nResolves, base, shadow,
                 pure, pending, last>>

createMark ==
  /\ Len(clock.stamps) < MaxStamps
  /\ clock' = [clock EXCEPT !.stamps = Append(@, [at |-> clock.now,
                                                  date |-> getMinuteTime(clock.now)])]
  /\ UNCHANGED <<variant, selfExtFound, doc, enabled, dataOpUserId, dataOpUserNickname,
                 composingStatus, isStartChineseInput, nextCh, nEdits, nResolves, base, shadow,
                 pure, pending, last>>

NextClock ==
  \/ timePasses
  \/ createMark

SpecClock == InitClock /\ [][NextClock]_vars

Next ==
  \/ UserEdit
  \/ acceptChange
  \/ rejectChange
  \/ acceptAllChanges
  \/ rejectAllChanges

Spec == Init /\ [][Next]_vars

----------------------------------------------------------------------------
(* Vocabulary of the properties *)

ResolveOps == {TRACK_COMMAND_ACCEPT, TRACK_COMMAND_REJECT, TRACK_COMMAND_ACCEPT_ALL,
               TRACK_COMMAND_REJECT_ALL}
IsResolve == last.op \in ResolveOps
IsEdit == last.op = "edit"
IsAcceptOp == last.op \in {TRACK_COMMAND_ACCEPT, TRACK_COMMAND_ACCEPT_ALL}

Present(d, c) == \E j \in 1..Len(d) : d[j].ch = c
CharOf(d, c) == d[CHOOSE j \in 1..Len(d) : d[j].ch = c]
BothMarks(d) == \E i \in 1..Len(d) : d[i].ins.on /\ d[i].del.on

(* The run keeps its content under this command (rows 1 and 4 of the policy
   table); otherwise the command removes it (rows 2 and 3). *)
KeepsContent(r) ==
  \/ IsAcceptOp /\ r.type = MARK_INSERTION
  \/ ~IsAcceptOp /\ r.type = MARK_DELETION

RunFollowsPolicy(r) ==
  \A i \in r.from..(r.to - 1) :
    IF KeepsContent(r)
    THEN /\ Present(doc, last.pre[i].ch)
         /\ ~SameMarkType(CharOf(doc, last.pre[i].ch), r.type).on
    ELSE ~Present(doc, last.pre[i].ch)

(* C1: every run gathered by an accept or reject call is resolved by the
   policy table: accept keeps an insertion run's content and strips its
   mark and removes a deletion run's content; reject does the opposite. *)
C1_PolicyTable ==
  IsResolve => \A k \in 1..Len(last.markRanges) : RunFollowsPolicy(last.markRanges[k])

(* The same, for calls on documents in which no character carries both kinds
   of mark. *)
C1_PolicyTableSingleMarked ==
  (IsResolve /\ ~BothMarks(last.pre)) =>
    \A k \in 1..Len(last.markRanges) : RunFollowsPolicy(last.markRanges[k])

C1_Witness ==
  /\ IsResolve
  /\ \E k \in 1..Len(last.markRanges) : KeepsContent(last.markRanges[k])
  /\ \E k \in 1..Len(last.markRanges) : ~KeepsContent(last.markRanges[k])

----------------------------------------------------------------------------
AuthorMark == MkMark(last.opUserId, last.opUserNickname)
IsTrackedEdit == IsEdit /\ last.enabledAt
IsPureDeletion == IsTrackedEdit /\ last.from < last.to /\ Len(last.slice) = 0
IsPureInsertion == IsTrackedEdit /\ last.from = last.to /\ Len(last.slice) > 0
DeletedHasInsertion == \E i \in last.from..(last.to - 1) : last.pre[i].ins.on
DeletedAllInsertion == \A i \in last.from..(last.to - 1) : last.pre[i].ins.on

(* C2: a tracked deletion of content with no insertion mark leaves the text
   as it was before the deletion; the characters of the deleted range, and
   no others, get a deletion mark of the current author. *)
C2_DeletionReinserted ==
  (IsPureDeletion /\ ~DeletedHasInsertion) =>
    /\ ~last.threw
    /\ Len(doc) = Len(last.pre)
    /\ \A i \in 1..Len(doc) :
         IF InRange(i, last.from, last.to)
         THEN doc[i] = [last.pre[i] EXCEPT !.del = AuthorMark]
         ELSE doc[i] = last.pre[i]

C2_Witness ==
  /\ IsPureDeletion /\ ~DeletedHasInsertion
  /\ last.to - last.from < Len(last.pre)
  /\ \E i \in 1..Len(doc) : doc[i].del = AuthorMark

(* C3: a tracked deletion of insertion-marked content removes it outright:
   the deleted characters are gone and no deletion mark was made for them. *)
C3_InsertedContentRemoved ==
  (IsPureDeletion /\ DeletedAllInsertion) =>
    /\ ~last.threw
    /\ \A i \in last.from..(last.to - 1) : ~Present(doc, last.pre[i].ch)
    /\ doc = ApplyReplace(last.pre, last.from, last.to, <<>>)

(* C4: a tracked pure insertion of size s at p leaves exactly [p, p+s) of
   the new document with an insertion mark of the current author; no
   character outside the range changes. *)
C4_InsertionMarked ==
  IsPureInsertion =>
    LET p == last.from
        s == Len(last.slice)
    IN /\ ~last.threw
       /\ Len(doc) = Len(last.pre) + s
       /\ \A i \in 1..Len(doc) :
            IF InRange(i, p, p + s)
            THEN doc[i].ch = last.slice[i - p + 1].ch /\ doc[i].ins = AuthorMark
            ELSE doc[i] = last.pre[IF i < p THEN i ELSE i - s]

C4_Witness ==
  /\ IsPureInsertion
  /\ Len(last.pre) > 0
  /\ last.from > 1
  /\ last.from <= Len(last.pre)
  /\ doc[last.from].ins = AuthorMark

----------------------------------------------------------------------------
(* C5: after any sequence of tracked insertions and deletions on an unmarked
   document, reject-all gives back the text the document had before the
   sequence, with no insertion or deletion mark left. *)
C5_RejectAllRestores ==
  (last.op = TRACK_COMMAND_REJECT_ALL /\ last.pureBefore) =>
    /\ Text(doc) = Text(base)
    /\ NoMarks(doc)

(* C6: after any such sequence, accept-all gives the text the same edits
   give with tracking disabled, with no insertion or deletion mark left. *)
C6_AcceptAllEqualsPlainEdits ==
  (last.op = TRACK_COMMAND_ACCEPT_ALL /\ last.pureBefore) =>
    /\ Text(doc) = shadow
    /\ NoMarks(doc)

----------------------------------------------------------------------------
RemovedRuns == {k \in 1..Len(last.markRanges) : ~KeepsContent(last.markRanges[k])}
InRemovedRun(i) ==
  \E k \in RemovedRuns : InRange(i, last.markRanges[k].from, last.markRanges[k].to)

RECURSIVE SumLengths(_)
SumLengths(S) ==
  IF S = {} THEN 0
  ELSE LET k == CHOOSE x \in S : TRUE
       IN (last.markRanges[k].to - last.markRanges[k].from) + SumLengths(S \ {k})

RECURSIVE Surviving(_, _)
Surviving(d, i) ==
  IF i > Len(d) THEN <<>>
  ELSE (IF InRemovedRun(i) THEN <<>> ELSE <<d[i].ch>>) \o Surviving(d, i + 1)

(* C7: when one call removes the content of several runs, exactly the
   characters of these runs disappear: the size drops by the sum of their
   lengths and the rest of the text keeps its order. *)
C7_OffsetCorrect ==
  (IsResolve /\ Cardinality(RemovedRuns) >= 2) =>
    /\ ~last.threw
    /\ Len(doc) = Len(last.pre) - SumLengths(RemovedRuns)
    /\ Text(doc) = Surviving(last.pre, 1)

(* Two deletion runs that do not touch, accepted in one call. *)
C7_Witness ==
  /\ IsResolve
  /\ IsAcceptOp
  /\ Cardinality(RemovedRuns) >= 2
  /\ \E j, k \in RemovedRuns : last.markRanges[j].to < last.markRanges[k].from
  /\ Len(doc) > 0
  /\ Len(doc) = Len(last.pre) - SumLengths(RemovedRuns)

----------------------------------------------------------------------------
EngineChanges == IF IsResolve THEN last.batch \o last.appended ELSE last.appended
HasReplaceStep(tr) == \E i \in 1..Len(tr.steps) : tr.steps[i].type = "replace"

(* C8: every change the interceptor or the resolution engine makes carries
   the trackManualChanged flag when it holds steps, the interceptor returns
   nothing for it, and so a user change is followed by at most one
   corrective change and a resolution by none. *)
C8_SelfSuppression ==
  (IsEdit \/ IsResolve) =>
    /\ \A k \in 1..Len(EngineChanges) :
         /\ docChanged(EngineChanges[k]) => EngineChanges[k].trackManualChanged
         /\ EngineChanges[k].trackManualChanged =>
              ~appendTransaction(<<EngineChanges[k]>>, EngineChanges[k].doc).some
    /\ Len(last.appended) <= (IF IsEdit THEN 1 ELSE 0)

C8_Witness ==
  /\ IsEdit
  /\ Len(last.appended) = 1
  /\ HasReplaceStep(last.appended[1])
  /\ last.appended[1].trackManualChanged
  /\ doc = last.appended[1].doc

(* A resolution whose change deletes content and is left alone. *)
C8_WitnessResolve ==
  /\ IsResolve
  /\ HasReplaceStep(last.batch[1])
  /\ last.appended = <<>>

----------------------------------------------------------------------------
IsBatch == last.op = "batch"
Flagged(tr) == tr.history \/ tr.sync
StepOf(tr, step) == \E i \in 1..Len(tr.steps) : tr.steps[i] = step
Handled(step) == \E h \in 1..Len(last.handled) : last.handled[h] = step

(* C9: no step of a change flagged history$ or y-sync$ (isChangeOrigin) is
   marked or re-inserted by the interceptor, also when the change comes in
   one batch with an unflagged user change. *)
C9_FlaggedChangesUntouched ==
  IsBatch =>
    \A k \in 1..Len(last.batch) :
      Flagged(last.batch[k]) =>
        \A i \in 1..Len(last.batch[k].steps) : ~Handled(last.batch[k].steps[i])

(* The same for history replays alone. *)
C9_HistoryUntouched ==
  IsBatch =>
    \A k \in 1..Len(last.batch) :
      last.batch[k].history =>
        \A i \in 1..Len(last.batch[k].steps) : ~Handled(last.batch[k].steps[i])

(* C10: while the composition status is Start or Continuing, the
   interceptor marks no step of an incoming edit and returns no corrective
   change that edits the document. *)
C10_NoMarkingWhileComposing ==
  (IsEdit /\ last.composingAt \in {IME_STATUS_START, IME_STATUS_CONTINUE}) =>
    /\ last.handled = <<>>
    /\ \A k \in 1..Len(last.appended) : ~docChanged(last.appended[k])

----------------------------------------------------------------------------
IsSetStatus == last.op = "setTrackChangeStatus"
IsToggleStatus == last.op = "toggleTrackChangeStatus"
IsGetStatus == last.op = "getTrackChangeStatus"
IsUpdateOpUser == last.op = "updateOpUserOption"

InSlice(c) == \E k \in 1..Len(last.slice) : last.slice[k].ch = c.ch
InDeleted(c) == \E i \in last.from..(last.to - 1) : last.pre[i].ch = c.ch
CreatesMarksOrContent(tr) ==
  \E i \in 1..Len(tr.steps) : tr.steps[i].type \in {"addMark", "replace"}

(* C15: setTrackChangeStatus(b) leaves the enabled option equal to b,
   toggleTrackChangeStatus negates it and getTrackChangeStatus reports it;
   set and toggle call the status callback once with the new value; none of
   the three changes the document; and a user change is handled by the
   value in force when it is made: while disabled the corrective change
   adds no mark and re-inserts nothing, while enabled the inserted
   characters carry an insertion mark and deleted content that had no
   insertion mark is back with a deletion mark. *)
C15_StatusInForce ==
  /\ IsSetStatus =>
       /\ ~last.threw
       /\ enabled = last.status
       /\ last.statusCalls = <<last.status>>
       /\ doc = last.pre
  /\ IsToggleStatus =>
       /\ ~last.threw
       /\ enabled = ~last.enabledAt
       /\ last.statusCalls = <<enabled>>
       /\ doc = last.pre
  /\ IsGetStatus =>
       /\ ~last.threw
       /\ last.cmdRet = enabled
       /\ enabled = last.enabledAt
       /\ last.statusCalls = <<>>
       /\ doc = last.pre
  /\ IsEdit =>
       /\ enabled = last.enabledAt
       /\ ~last.enabledAt => \A k \in 1..Len(last.appended) :
                               ~CreatesMarksOrContent(last.appended[k])
       /\ last.enabledAt =>
            /\ \A k \in 1..Len(last.slice) :
                 /\ Present(doc, last.slice[k].ch)
                 /\ CharOf(doc, last.slice[k].ch).ins.on
            /\ ~DeletedHasInsertion =>
                 \A i \in last.from..(last.to - 1) :
                   /\ Present(doc, last.pre[i].ch)
                   /\ CharOf(doc, last.pre[i].ch).del.on

(* A change made while tracking is off in a document that holds a tracked
   run: tracking was on for an earlier change and was switched off since. *)
C15_Witness ==
  /\ IsEdit
  /\ ~last.enabledAt
  /\ Len(last.slice) > 0
  /\ \E i \in 1..Len(last.pre) : last.pre[i].ins.on \/ last.pre[i].del.on

(* What a tracked change stamps: the characters it inserted carry the
   insertion mark of the author in force, the characters it struck carry
   that author's deletion mark, and the characters it did not touch are as
   they were. *)
StampedAsAuthor ==
  /\ ~last.threw
  /\ \A i \in 1..Len(doc) :
       /\ InSlice(doc[i]) => doc[i].ins = AuthorMark
       /\ (InDeleted(doc[i]) /\ doc[i].del.on) => doc[i].del = AuthorMark
       /\ (~InSlice(doc[i]) /\ ~InDeleted(doc[i])) =>
            (Present(last.pre, doc[i].ch) /\ doc[i] = CharOf(last.pre, doc[i].ch))

(* C16: updateOpUserOption(id, name) sets the author options and changes
   nothing in the document (the runs made before keep their author); every
   run a later tracked change makes is stamped with exactly the id and the
   name in force. *)
C16_StampedAsUpdated ==
  /\ IsUpdateOpUser =>
       /\ ~last.threw
       /\ dataOpUserId = last.argId
       /\ dataOpUserNickname = last.argName
       /\ doc = last.pre
  /\ IsTrackedEdit => StampedAsAuthor

(* The same for authors whose id and name are not empty. *)
C16_StampedWhenNotEmpty ==
  /\ IsUpdateOpUser =>
       /\ ~last.threw
       /\ dataOpUserId = last.argId
       /\ dataOpUserNickname = last.argName
       /\ doc = last.pre
  /\ (IsTrackedEdit /\ last.opUserId # "" /\ last.opUserNickname # "") => StampedAsAuthor

(* C19: a change made while tracking is disabled is a normal edit: the
   characters it inserted carry neither mark afterwards, and the content it
   deleted is gone. *)
C19_DisabledEditIsPlain ==
  (IsEdit /\ ~last.enabledAt) =>
    /\ ~last.threw
    /\ \A k \in 1..Len(last.slice) :
         /\ Present(doc, last.slice[k].ch)
         /\ ~CharOf(doc, last.slice[k].ch).ins.on
         /\ ~CharOf(doc, last.slice[k].ch).del.on
    /\ \A i \in last.from..(last.to - 1) : ~Present(doc, last.pre[i].ch)

(* C20: the interceptor returns a corrective change only if some operation
   had an effect: a corrective change it returns has at least one step. *)
C20_NoEffectReturnsNothing ==
  IsEdit => \A k \in 1..Len(last.appended) : docChanged(last.appended[k])

(* C17: when the lookup of the extension by name finds nothing, the
   operation that needed it (a session command; in index.ts the
   interception of a change too) raises no exception, and the command
   reports false and leaves the document and the session options as they
   were. *)
UsesSelfLookup ==
  \/ IsSetStatus \/ IsToggleStatus \/ IsGetStatus \/ IsUpdateOpUser
  \/ IsEdit /\ variant = "index"

C17_LookupFailureIsFailedCommand ==
  (~selfExtFound /\ UsesSelfLookup) =>
    /\ ~last.threw
    /\ ~IsEdit =>
         /\ last.cmdRet = FALSE
         /\ doc = last.pre
         /\ enabled = last.enabledAt
         /\ dataOpUserId = last.opUserId
         /\ dataOpUserNickname = last.opUserNickname

----------------------------------------------------------------------------
IsAllOp == last.op \in {TRACK_COMMAND_ACCEPT_ALL, TRACK_COMMAND_REJECT_ALL}
IsCursorOp == last.op \in {TRACK_COMMAND_ACCEPT, TRACK_COMMAND_REJECT} /\ last.from = last.to
IsRangeOp == last.op \in {TRACK_COMMAND_ACCEPT, TRACK_COMMAND_REJECT} /\ last.from < last.to
Marked(c) == c.ins.on \/ c.del.on

(* The scope of the command holds a tracked run: some character of the
   document (for the -all commands), of the selected range, or the
   character left of the cursor, carries a mark. *)
ScopeHasRun ==
  IF IsAllOp THEN \E i \in 1..Len(last.pre) : Marked(last.pre[i])
  ELSE IF IsRangeOp THEN \E i \in last.from..(last.to - 1) : Marked(last.pre[i])
  ELSE last.from > 1 /\ Marked(last.pre[last.from - 1])

(* C11: the same accept or reject run a second time at once changes
   neither the text nor the marks, and a command over a range, or over a
   document, that holds no tracked run changes nothing. *)
C11_Idempotent ==
  /\ (IsResolve /\ last.again) => doc = last.pre
  /\ ((IsAllOp \/ IsRangeOp) /\ ~ScopeHasRun) => doc = last.pre

(* The part of C11 that holds: the -all commands run twice, and commands
   over content with no tracked run. *)
C11_IdempotentAll ==
  /\ (IsAllOp /\ last.again) => doc = last.pre
  /\ ((IsAllOp \/ IsRangeOp) /\ ~ScopeHasRun) => doc = last.pre

----------------------------------------------------------------------------
(* C12: a command whose scope holds no tracked run emits no step, does not
   set the flag, leaves the document as it was, raises nothing and reports
   false; a command whose scope holds a tracked run reports true. *)
C12_ReportsWhetherResolved ==
  IsResolve =>
    /\ ~ScopeHasRun =>
         /\ ~last.threw
         /\ ~docChanged(last.root)
         /\ ~last.root.trackManualChanged
         /\ doc = last.pre
         /\ last.cmdRet = FALSE
    /\ ScopeHasRun => last.cmdRet = TRUE

(* The same about what changeTrack returns to the command, on documents in
   which no character carries both marks and with the cursor not at the
   start of the block. *)
C12_ChangeTrackReports ==
  (IsResolve /\ ~BothMarks(last.pre) /\ (IsCursorOp => last.from > 1)) =>
    /\ ~ScopeHasRun =>
         /\ ~last.threw
         /\ ~docChanged(last.root)
         /\ ~last.root.trackManualChanged
         /\ doc = last.pre
         /\ last.ret = FALSE
    /\ ScopeHasRun => last.ret = TRUE

(* The run left of the cursor: the mark kind the command looks at (the
   insertion mark first), and the characters around the left neighbour that
   carry the same mark. *)
LeftChar == last.pre[last.from - 1]
LeftActive == last.from > 1 /\ Marked(LeftChar)
LeftType == IF LeftChar.ins.on THEN MARK_INSERTION ELSE MARK_DELETION
SameRun(i) == SameMarkType(last.pre[i], LeftType) = SameMarkType(LeftChar, LeftType)
InLeftRun(i) ==
  \A k \in Min(i, last.from - 1)..Max(i, last.from - 1) : SameRun(k)
LeftRunKept ==
  \/ last.op = TRACK_COMMAND_ACCEPT /\ LeftType = MARK_INSERTION
  \/ last.op = TRACK_COMMAND_REJECT /\ LeftType = MARK_DELETION

(* C13: accept or reject with a cursor resolves the whole run that is
   active left of the cursor, and nothing else; with no mark active there
   the document is left as it was. *)
C13_CursorResolvesLeftRun ==
  IsCursorOp =>
    /\ ~last.threw
    /\ ~LeftActive => doc = last.pre
    /\ LeftActive =>
         \A i \in 1..Len(last.pre) :
           IF InLeftRun(i)
           THEN IF LeftRunKept
                THEN /\ Present(doc, last.pre[i].ch)
                     /\ ~SameMarkType(CharOf(doc, last.pre[i].ch), LeftType).on
                ELSE ~Present(doc, last.pre[i].ch)
           ELSE /\ Present(doc, last.pre[i].ch)
                /\ CharOf(doc, last.pre[i].ch) = last.pre[i]

(* The part of C13 that holds: no character carries both marks and the
   character right of the cursor does not carry the kind of mark that is
   active left of it. *)
C13_CursorAtEndOfRun ==
  (/\ IsCursorOp
   /\ ~BothMarks(last.pre)
   /\ last.from > 1
   /\ (LeftActive /\ last.from <= Len(last.pre)) =>
        ~SameMarkType(last.pre[last.from], LeftType).on) =>
    /\ ~last.threw
    /\ ~LeftActive => doc = last.pre
    /\ LeftActive =>
         \A i \in 1..Len(last.pre) :
           IF InLeftRun(i)
           THEN IF LeftRunKept
                THEN /\ Present(doc, last.pre[i].ch)
                     /\ ~SameMarkType(CharOf(doc, last.pre[i].ch), LeftType).on
                ELSE ~Present(doc, last.pre[i].ch)
           ELSE /\ Present(doc, last.pre[i].ch)
                /\ CharOf(doc, last.pre[i].ch) = last.pre[i]

OnlyIns(c) == c.ins.on /\ ~c.del.on
OnlyDel(c) == c.del.on /\ ~c.ins.on
InOrder(d, e) ==
  \A j, k \in 1..Len(d) :
    (j < k /\ Present(e, d[j].ch) /\ Present(e, d[k].ch)) =>
      (CHOOSE x \in 1..Len(e) : e[x].ch = d[j].ch) < (CHOOSE x \in 1..Len(e) : e[x].ch = d[k].ch)

(* C14: accept-all and reject-all resolve every run of the document
   whatever the selection is: the result carries no mark, the operation is
   the same for every run (accept keeps inserted text and removes struck
   text, reject does the reverse), untracked text stays and nothing moves. *)
C14_AllResolvesEveryRun ==
  IsAllOp =>
    /\ ~last.threw
    /\ NoMarks(doc)
    /\ \A j \in 1..Len(doc) : Present(last.pre, doc[j].ch)
    /\ InOrder(last.pre, doc)
    /\ \A i \in 1..Len(last.pre) :
         /\ ~Marked(last.pre[i]) => Present(doc, last.pre[i].ch)
         /\ OnlyIns(last.pre[i]) =>
              (Present(doc, last.pre[i].ch) <=> last.op = TRACK_COMMAND_ACCEPT_ALL)
         /\ OnlyDel(last.pre[i]) =>
              (Present(doc, last.pre[i].ch) <=> last.op = TRACK_COMMAND_REJECT_ALL)

(* An -all command run with a selection that covers none of the runs it
   resolved, on a document that held an inserted and a struck run. *)
C14_Witness ==
  /\ IsAllOp
  /\ last.from = last.to
  /\ \E i \in 1..Len(last.pre) : OnlyIns(last.pre[i]) /\ i + 1 < last.from
  /\ \E i \in 1..Len(last.pre) : OnlyDel(last.pre[i]) /\ i + 1 < last.from
  /\ Len(doc) > 0
  /\ Len(doc) < Len(last.pre)

----------------------------------------------------------------------------
(* What tracking owes a change that turned last.pre into newDoc: the
   characters the change brought carry an insertion mark, the characters it
   removed that had no insertion mark are back with a deletion mark, the
   characters it kept are as they were, and nothing changed place. *)
TrackedAsWhole(newDoc) ==
  /\ ~last.threw
  /\ \A j \in 1..Len(newDoc) :
       ~Present(last.pre, newDoc[j].ch) =>
         (Present(doc, newDoc[j].ch) /\ CharOf(doc, newDoc[j].ch).ins.on)
  /\ \A i \in 1..Len(last.pre) :
       IF Present(newDoc, last.pre[i].ch)
       THEN Present(doc, last.pre[i].ch) /\ CharOf(doc, last.pre[i].ch) = last.pre[i]
       ELSE ~last.pre[i].ins.on =>
              (Present(doc, last.pre[i].ch) /\ CharOf(doc, last.pre[i].ch).del.on)
  /\ InOrder(last.pre, doc)
  /\ InOrder(newDoc, doc)

IsUserChange(n) ==
  /\ IsBatch
  /\ last.enabledAt
  /\ Len(last.batch) = 1
  /\ ~Flagged(last.batch[1])
  /\ Len(last.batch[1].steps) = n

(* C18: after the corrective change for a tracked change of two steps,
   every inserted character carries an insertion mark, every removed
   character is back in place with a deletion mark, and no other character
   gained a mark or moved. *)
C18_MultiStepPositions ==
  IsUserChange(2) => TrackedAsWhole(last.batch[1].doc)

(* The same for a change of one step. *)
C18_SingleStepPositions ==
  IsUserChange(1) => TrackedAsWhole(last.batch[1].doc)

----------------------------------------------------------------------------
(* C21: the composition status goes from Normal to Start when a
   composition begins, from Start to Continuing on a composition update,
   and to Normal on a selection update; nothing else changes it. *)
C21_CompositionStateMachine ==
  [][/\ (compositionstart /\ composingStatus = IME_STATUS_NORMAL) =>
          composingStatus' = IME_STATUS_START
     /\ (compositionupdate /\ composingStatus = IME_STATUS_START) =>
          composingStatus' = IME_STATUS_CONTINUE
     /\ onSelectionUpdate => composingStatus' = IME_STATUS_NORMAL
     /\ composingStatus' # composingStatus =>
          (compositionstart \/ compositionupdate \/ onSelectionUpdate)]_vars

(* What the handlers do: an update sets Continuing from any status, a
   selection update sets Normal, nothing else writes the status, and the
   status is never Start or Finished. *)
C21_StatusAsWritten ==
  [][/\ compositionstart => composingStatus' = composingStatus
     /\ compositionupdate => composingStatus' = IME_STATUS_CONTINUE
     /\ onSelectionUpdate => composingStatus' = IME_STATUS_NORMAL
     /\ composingStatus' # composingStatus => (compositionupdate \/ onSelectionUpdate)]_vars

C21_NeverStartNorFinished ==
  composingStatus \in {IME_STATUS_NORMAL, IME_STATUS_CONTINUE}

----------------------------------------------------------------------------
(* C22: the date stamped on a mark is the clock time truncated to whole
   minutes: a multiple of 60000 ms, not later than the time of the stamp,
   and equal for two stamps made within the same minute. *)
C22_TruncatedToMinute ==
  \A i, j \in 1..Len(clock.stamps) :
    /\ clock.stamps[i].date % 60000 = 0
    /\ clock.stamps[i].date <= clock.stamps[i].at
    /\ (clock.stamps[i].at \div 60000 = clock.stamps[j].at \div 60000) =>
         clock.stamps[i].date = clock.stamps[j].date

(* What holds: the date is the whole minute nearest to the time of the
   stamp (the later one at half a minute). *)
C22_RoundedToMinute ==
  \A i \in 1..Len(clock.stamps) :
    /\ clock.stamps[i].date % 60000 = 0
    /\ clock.stamps[i].date - 30000 <= clock.stamps[i].at
    /\ clock.stamps[i].at < clock.stamps[i].date + 30000

----------------------------------------------------------------------------
(* Tracked runs and the selection.  A tracked run is a maximal range of
   characters that carry a mark of one kind with one set of attributes;
   character i is in a run of the kind that overlaps the selection when it
   carries the mark and so does every character from i to some selected
   character. *)
Selected(i) == InRange(i, last.from, last.to)
InRunOfKind(d, i, j, type) ==
  \A k \in Min(i, j)..Max(i, j) :
    SameMarkType(d[k], type).on /\ SameMarkType(d[k], type) = SameMarkType(d[i], type)
InSelectedRun(i, type) ==
  \E j \in 1..Len(last.pre) : Selected(j) /\ InRunOfKind(last.pre, i, j, type)
TypeOf(c) == IF c.ins.on THEN MARK_INSERTION ELSE MARK_DELETION
KeepsKind(type) ==
  \/ last.op = TRACK_COMMAND_ACCEPT /\ type = MARK_INSERTION
  \/ last.op = TRACK_COMMAND_REJECT /\ type = MARK_DELETION
ResolvedAs(c, type) ==
  IF KeepsKind(type)
  THEN Present(doc, c.ch) /\ ~SameMarkType(CharOf(doc, c.ch), type).on
  ELSE ~Present(doc, c.ch)
OtherMarksKept ==
  /\ \A k \in 1..Len(last.markRanges) : isTrackChangeRange(last.markRanges[k])
  /\ \A i \in 1..Len(last.pre) :
       /\ Present(doc, last.pre[i].ch) => CharOf(doc, last.pre[i].ch).bold = last.pre[i].bold
       /\ ~Marked(last.pre[i]) => Present(doc, last.pre[i].ch)

(* C23: accept or reject with a selection resolves every insertion or
   deletion run that overlaps the selection, over its whole extent and not
   only over its selected part; a mark of another kind is never removed and
   its text is never removed because of it. *)
C23_SelectionResolvesRuns ==
  IsRangeOp =>
    /\ ~last.threw
    /\ OtherMarksKept
    /\ \A i \in 1..Len(last.pre) :
         ((OnlyIns(last.pre[i]) \/ OnlyDel(last.pre[i])) /\ InSelectedRun(i, TypeOf(last.pre[i])))
           => ResolvedAs(last.pre[i], TypeOf(last.pre[i]))

(* What holds: the command resolves the text nodes that overlap the
   selection, each over its whole extent.  A tracked run whose text is
   partly bold is several text nodes, and the nodes outside the selection
   are left as they were. *)
C23_SelectionResolvesNodes ==
  IsRangeOp =>
    /\ ~last.threw
    /\ OtherMarksKept
    /\ \A i \in 1..Len(last.pre) :
         ((OnlyIns(last.pre[i]) \/ OnlyDel(last.pre[i])) /\
          NodeTo(last.pre, i) > last.from /\ NodeFrom(last.pre, i) < last.to)
           => ResolvedAs(last.pre[i], TypeOf(last.pre[i]))

(* With no bold text and no character that carries both marks the runs are
   the text nodes, and every run that overlaps the selection is resolved. *)
C23_UnstyledRunsResolved ==
  (IsRangeOp /\ ~BothMarks(last.pre) /\ \A i \in 1..Len(last.pre) : ~last.pre[i].bold) =>
    \A i \in 1..Len(last.pre) :
      (Marked(last.pre[i]) /\ InSelectedRun(i, TypeOf(last.pre[i])))
        => ResolvedAs(last.pre[i], TypeOf(last.pre[i]))

----------------------------------------------------------------------------
(* C24: in a session that starts from an unmarked document, whatever the
   user inserts, deletes or replaces, with tracking on or off, and whatever
   is accepted or rejected, no character carries an insertion mark and a
   deletion mark at once. *)
C24_NeverBothMarks == ~BothMarks(doc)

(* What holds in the index.ts build: a character comes to carry both marks
   only by a tracked deletion, and then it is a character the user deleted
   together with inserted text; typing never gives both marks. *)
C24_BothMarksOnlyByDeletion ==
  (variant = "index" /\ BothMarks(doc) /\ ~BothMarks(last.pre)) =>
    /\ IsEdit
    /\ last.enabledAt
    /\ last.from < last.to

----------------------------------------------------------------------------
InGatheredRun(i) ==
  \E k \in 1..Len(last.markRanges) :
    InRange(i, last.markRanges[k].from, last.markRanges[k].to)
OutsideKept ==
  /\ \A i \in 1..Len(last.pre) :
       ~InGatheredRun(i) =>
         /\ Present(doc, last.pre[i].ch)
         /\ CharOf(doc, last.pre[i].ch) = last.pre[i]
  /\ InOrder(last.pre, doc)
  /\ \A j \in 1..Len(doc) : Present(last.pre, doc[j].ch)

(* C25: an accept or reject call changes only characters of the runs it
   gathered: every other character of the document is still there, with
   the marks it had, and the characters are in the order they were in. *)
C25_OutsideGatheredUnchanged == IsResolve => OutsideKept

(* What holds: the frame is kept by every call on a document in which no
   character carries both marks. *)
C25_FrameWhenSinglyMarked == (IsResolve /\ ~BothMarks(last.pre)) => OutsideKept

----------------------------------------------------------------------------
(* The calls of the resolution loop, in order: the range each was given
   (the offset already subtracted), the size of the document it was applied
   to and the offset at that moment. *)
CallInBounds(c) == 0 <= c.from /\ c.from < c.to /\ c.to <= c.size
OffsetIsRemoved(c) == c.offset = ContentSize(last.pre) - c.size
CallsSafe == \A k \in 1..Len(last.calls) : CallInBounds(last.calls[k]) /\ OffsetIsRemoved(last.calls[k])

(* C26: every range the resolution loop hands to removeMark or deleteRange,
   offset subtracted, lies within the document as it then is
   (0 <= from < to <= size), and the offset is the length of what the call
   has removed so far. *)
C26_RangesInBounds == IsResolve => CallsSafe

(* What holds: the ranges are in bounds on documents in which no character
   carries both marks, and the offset is the removed length on every
   document. *)
C26_InBoundsWhenSinglyMarked ==
  IsResolve =>
    /\ \A k \in 1..Len(last.calls) : OffsetIsRemoved(last.calls[k])
    /\ ~BothMarks(last.pre) => CallsSafe

====
